---- MODULE Spec2Model ----
(***************************************************************************)
(* A model of ssort's dependency graph (src/src/ssort/_graphs.py): the     *)
(* Graph class with its two mirrored edge indices, cycle detection         *)
(* (_find_cycle), cycle replacement (replace_cycles) and the stable        *)
(* topological sort (topological_sort).                                    *)
(*                                                                         *)
(* Nodes are the integers 1..MaxNodes; the algorithms never compare node   *)
(* identities, only the positions of nodes in dicts and lists and the      *)
(* values of the key functions, all of which are modelled explicitly.      *)
(***************************************************************************)
EXTENDS Integers, Sequences, FiniteSets, TLC

\* ------------------------------------------------------------------ bounds
\* topological_sort: graphs of up to MaxNodes nodes and MaxEdges edges.
MaxNodes == 3
MaxEdges == 4
\* replace_cycles: graphs of up to RcMaxNodes nodes and RcMaxEdges edges.
RcMaxNodes == 4
RcMaxEdges == 5

VARIABLES
    graph,      \* the caller's Graph object
    \* ---- topological_sort(target, graph=...)
    mode,       \* "graph": topological_sort(graph); "list": topological_sort(list, graph=graph)
    target,     \* the list argument in list mode (<<>> in graph mode)
    ts_pc,      \* "call" | "loop" | "returned" | "assert_remaining" | "assert_sorted"
    nodes,      \* local `nodes`: the reference sequence
    key,        \* local `key`: node -> rank
    remaining,  \* local `remaining`: the working copy
    pending,    \* local `pending`: the ready list
    result,     \* local `result`
    ret,        \* the returned list
    \* ---- replace_cycles(graph, key=rc_key)
    rc_key,     \* the key argument
    rc_pc,      \* "call" | "loop" | "done"
    run,        \* 1: first call of replace_cycles, 2: second call on its result
    cycle,      \* local `cycle` of the last loop iteration (<<>> before the first)
    iterations, \* history: the loop iterations of the current call so far
    found,      \* history: the cycles found so far by the first call
    graph0,     \* history: the graph as it was when replace_cycles was first called
    after1,     \* history: the graph as the first call left it
    \* ---- calls of the Graph methods on `graph`
    graph_b,    \* a second Graph object: the last copy taken, the argument of update
    call,       \* the last method call: its name, its arguments, whether it raised
    before,     \* history: `graph` as it was when the last call was made
    \* ---- _find_cycle(graph)
    fc_pc,      \* "call" | "roots" | "search" | "returned"
    fc_root,    \* the position of the for loop in graph.nodes
    fc_done,    \* local `processed`
    fc_stack,   \* local `stack`: frames [node, deps], the top last
    fc_ret,     \* the returned list (<<>>: None)
    hit         \* history: the stack and the successor drawn when a cycle was detected

vars == <<graph, mode, target, ts_pc, nodes, key, remaining, pending, result, ret,
          rc_key, rc_pc, run, cycle, iterations, found, graph0, after1,
          graph_b, call, before, fc_pc, fc_root, fc_done, fc_stack, fc_ret, hit>>

api_vars == <<graph_b, call, before>>
fc_vars == <<fc_pc, fc_root, fc_done, fc_stack, fc_ret, hit>>

ts_vars == <<mode, target, ts_pc, nodes, key, remaining, pending, result, ret>>
rc_vars == <<rc_key, rc_pc, run, cycle, iterations, found, graph0, after1>>

\* ------------------------------------------------------------ small helpers
Node == 1..MaxNodes

Front(s) == SubSeq(s, 1, Len(s) - 1)

Range(s) == {s[i] : i \in DOMAIN s}

IndexOf(s, x) == CHOOSE i \in DOMAIN s : s[i] = x

\* a stands before b in the list s.
Before(s, a, b) == IndexOf(s, a) < IndexOf(s, b)

Injective(f) == \A a, b \in DOMAIN f : f[a] = f[b] => a = b

NoDuplicates(s) == \A i, j \in DOMAIN s : s[i] = s[j] => i = j

Reverse(s) == [i \in 1..Len(s) |-> s[Len(s) + 1 - i]]

\* A dict without key k (dict.pop(k, None)).
Drop(d, k) == [x \in (DOMAIN d) \ {k} |-> d[x]]

\* A dict with d[k] = v set (overwriting).
Put(d, k, v) == [x \in (DOMAIN d) \cup {k} |-> IF x = k THEN v ELSE d[x]]

EmptyDict == [x \in {} |-> TRUE]

\* The elements of a set of integers in ascending order.
RECURSIVE Ascending(_)
Ascending(S) ==
    IF S = {} THEN <<>>
    ELSE LET m == CHOOSE x \in S : \A y \in S : x <= y
         IN  <<m>> \o Ascending(S \ {m})

\* ------------------------------------------------------------------- Graph
\* A Graph object: _out_edges and _in_edges are dicts of dicts; `order` is the
\* insertion order of the keys of _out_edges, which is what iterating
\* graph.nodes yields.
EmptyGraph == [order |-> <<>>, out |-> EmptyDict, inn |-> EmptyDict]

graph_nodes(G) == G.order

NodeSet(G) == DOMAIN G.out

successors(G, node) == DOMAIN G.out[node]

predecessors(G, node) == DOMAIN G.inn[node]

has_edge(G, origin, destination) ==
    origin \in DOMAIN G.out /\ destination \in DOMAIN G.out[origin]

edge(G, origin, destination) == G.out[origin][destination]

add_node(G, node) ==
    [order |-> IF node \in DOMAIN G.out THEN G.order ELSE Append(G.order, node),
     out   |-> IF node \in DOMAIN G.out THEN G.out ELSE Put(G.out, node, EmptyDict),
     inn   |-> IF node \in DOMAIN G.inn THEN G.inn ELSE Put(G.inn, node, EmptyDict)]

\* KeyError (raised before anything is written) when an endpoint is missing.
add_edge_raises(G, origin, destination) ==
    origin \notin DOMAIN G.out \/ destination \notin DOMAIN G.inn

\* out_edges[destination] = edge written before self._in_edges[destination] is
\* looked up: a missing destination leaves half an edge behind.
add_edge_out_first(G, origin, destination, e) ==
    IF origin \notin DOMAIN G.out THEN G
    ELSE IF destination \notin DOMAIN G.inn
         THEN [G EXCEPT !.out[origin] = Put(@, destination, e)]
         ELSE [G EXCEPT !.out[origin] = Put(@, destination, e),
                        !.inn[destination] = Put(@, origin, e)]

add_edge(G, origin, destination, e) ==
    IF add_edge_raises(G, origin, destination) THEN G
    ELSE [G EXCEPT !.out[origin] = Put(@, destination, e),
                   !.inn[destination] = Put(@, origin, e)]

\* out_edges.pop(destination) without the default: KeyError on a missing edge.
remove_edge_raises_strict(G, origin, destination) ==
    \/ origin \notin DOMAIN G.out \/ destination \notin DOMAIN G.inn
    \/ destination \notin DOMAIN G.out[origin]

remove_edge_raises(G, origin, destination) ==
    origin \notin DOMAIN G.out \/ destination \notin DOMAIN G.inn

\* The second pop forgotten: the incoming index keeps the edge.
remove_edge_out_only(G, origin, destination) ==
    IF remove_edge_raises(G, origin, destination) THEN G
    ELSE [G EXCEPT !.out[origin] = Drop(@, destination)]

remove_edge(G, origin, destination) ==
    IF remove_edge_raises(G, origin, destination) THEN G
    ELSE [G EXCEPT !.out[origin] = Drop(@, destination),
                   !.inn[destination] = Drop(@, origin)]

remove_node_raises(G, node) ==
    node \notin DOMAIN G.out \/ node \notin DOMAIN G.inn

\* The second pop loop forgotten: the node's predecessors keep it as a
\* successor.
remove_node_unlinked_out_only(G, node) ==
    LET out_edges == DOMAIN G.out[node]
    IN  [G EXCEPT
          !.inn = [d \in DOMAIN G.inn |->
                     IF d \in out_edges THEN Drop(G.inn[d], node) ELSE G.inn[d]]]

\* The two indices after the two pop loops of remove_node, before the node's own
\* entries are popped.
remove_node_unlinked(G, node) ==
    LET out_edges == DOMAIN G.out[node]
        in_edges  == DOMAIN G.inn[node]
    IN  [G EXCEPT
          !.inn = [d \in DOMAIN G.inn |->
                     IF d \in out_edges THEN Drop(G.inn[d], node) ELSE G.inn[d]],
          !.out = [o \in DOMAIN G.out |->
                     IF o \in in_edges THEN Drop(G.out[o], node) ELSE G.out[o]]]

remove_node(G, node) ==
    IF remove_node_raises(G, node) THEN G
    ELSE LET U == remove_node_unlinked(G, node)
         IN  [order |-> SelectSeq(U.order, LAMBDA x : x # node),
              out   |-> Drop(U.out, node),
              inn   |-> Drop(U.inn, node)]

\* setdefault for every entry of `other`: the entries already there win.
DictUpdate_keep(d, other) ==
    [x \in (DOMAIN d) \cup (DOMAIN other) |-> IF x \in DOMAIN d THEN d[x] ELSE other[x]]

\* dict.update: the entries of `other` win.
DictUpdate(d, other) ==
    [x \in (DOMAIN d) \cup (DOMAIN other) |-> IF x \in DOMAIN other THEN other[x] ELSE d[x]]

RECURSIVE update_from(_, _, _)
update_from(G, other, i) ==
    IF i > Len(other.order) THEN G
    ELSE LET node == other.order[i]
             G1   == add_node(G, node)
             G2   == [G1 EXCEPT !.out[node] = DictUpdate(@, other.out[node]),
                                !.inn[node] = DictUpdate(@, other.inn[node])]
         IN  update_from(G2, other, i + 1)

update(G, other) == update_from(G, other, 1)

copy(G) == update(EmptyGraph, G)

\* copy._out_edges = dict(self._out_edges): a shallow copy, whose per-node edge
\* dicts are the original's own.
copy_shared_shallow(G) == NodeSet(G)

\* The nodes whose edge dicts (the inner dicts of the two indices) are the
\* same objects in G.copy() and in G. None: the copy starts from Graph(),
\* add_node gives it a fresh {} per node, and dict.update copies entries.
copy_shared(G) == {}

\* What R.remove_node(node) writes into the graph G that R was copied from,
\* when R holds G's own edge dicts for the nodes in `shared`: the two pop
\* loops write into the edge dicts of the node's neighbours; the final two
\* pops write into R's outer dicts only.
remove_node_written_through(G, shared, R, node) ==
    LET out_edges == DOMAIN R.out[node]
        in_edges  == DOMAIN R.inn[node]
    IN  [G EXCEPT
          !.inn = [d \in DOMAIN G.inn |->
                     IF d \in shared /\ d \in out_edges THEN Drop(G.inn[d], node)
                                                        ELSE G.inn[d]],
          !.out = [o \in DOMAIN G.out |->
                     IF o \in shared /\ o \in in_edges THEN Drop(G.out[o], node)
                                                       ELSE G.out[o]]]

\* The graph built by add_node for each node of `order`, then add_edge(o, d, e)
\* for each pair <<o, d>> of E.
MkGraph(order, E, e) ==
    [order |-> order,
     out   |-> [o \in Range(order) |-> [d \in {x \in Range(order) : <<o, x>> \in E} |-> e]],
     inn   |-> [d \in Range(order) |-> [o \in {x \in Range(order) : <<x, d>> \in E} |-> e]]]

Edges(G) == {<<o, d>> \in NodeSet(G) \X NodeSet(G) : d \in DOMAIN G.out[o]}

\* ------------------------------------------------- reference reachability
\* Directed reachability by one or more edges, computed independently of the
\* program's own cycle search: the yardstick the claims are stated against.
RECURSIVE ReachFrom(_, _)
ReachFrom(G, S) ==
    LET T == S \cup UNION {DOMAIN G.out[n] : n \in S}
    IN  IF T = S THEN S ELSE ReachFrom(G, T)

HasPath(G, a, b) == b \in ReachFrom(G, DOMAIN G.out[a])

HasCycle(G) == \E n \in NodeSet(G) : HasPath(G, n, n)

Acyclic(G) == ~HasCycle(G)

\* ------------------------------------------------------ sort_key_from_iter
\* ssort._utils.sort_key_from_iter is not among the source files. Modelled
\* from the specification: rank(n) is the zero-based position of n in the
\* reference sequence; nodes absent from the sequence get some fixed,
\* pairwise distinct ranks after all present nodes (the placement policy is
\* left open, so every such placement is a possible key).
sort_key_from_iter(values, wanted) ==
    LET absent == wanted \ Range(values)
        places == {p \in [absent -> 0..(Cardinality(absent) - 1)] : Injective(p)}
    IN  {[n \in wanted |-> IF n \in Range(values) THEN IndexOf(values, n) - 1
                                                     ELSE Len(values) + p[n]]
           : p \in places}

\* sorted(seq, key=k): a stable sort, ascending.
RECURSIVE InsertSorted(_, _, _)
InsertSorted(s, x, k) ==
    IF s = <<>> THEN <<x>>
    ELSE IF k[x] < k[s[Len(s)]]
         THEN Append(InsertSorted(SubSeq(s, 1, Len(s) - 1), x, k), s[Len(s)])
         ELSE Append(s, x)

\* sorted(..., reverse=True): a plausible slip of the sort direction.
RECURSIVE sorted_descending(_, _)
sorted_descending(s, k) ==
    IF s = <<>> THEN <<>>
    ELSE LET rest == sorted_descending(SubSeq(s, 1, Len(s) - 1), k)
             x    == s[Len(s)]
             keep == SelectSeq(rest, LAMBDA y : k[y] >= k[x])
             tail == SelectSeq(rest, LAMBDA y : k[y] < k[x])
         IN  keep \o <<x>> \o tail

RECURSIVE sorted(_, _)
sorted(s, k) ==
    IF s = <<>> THEN <<>>
    ELSE InsertSorted(sorted(SubSeq(s, 1, Len(s) - 1), k), s[Len(s)], k)

\* ------------------------------------------------- is_topologically_sorted
RECURSIVE is_sorted_from(_, _, _, _)
is_sorted_from(ns, G, i, visited) ==
    IF i > Len(ns) THEN TRUE
    ELSE LET visited1 == visited \cup {ns[i]}
         IN  IF \E dependency \in successors(G, ns[i]) : dependency \notin visited1
             THEN FALSE
             ELSE is_sorted_from(ns, G, i + 1, visited1)

is_topologically_sorted(ns, G) == is_sorted_from(ns, G, 1, {})

\* -------------------------------------------------------- topological_sort
\* Every node taken as ready: the predecessor test forgotten.
initial_pending_all(G) == graph_nodes(G)

\* pending = [node for node in graph.nodes if not graph.predecessors(node)]
initial_pending(G) ==
    SelectSeq(graph_nodes(G), LAMBDA n : predecessors(G, n) = {})

\* pending.pop(0): the lowest rank taken instead of the highest.
popped_lowest(pend, k) == sorted(pend, k)[1]

\* The node popped by one iteration of the while loop: pending.pop() after the
\* sort.
popped(pend, k) == sorted(pend, k)[Len(pend)]

\* `dependencies` is a live view of the popped node's own successor dict, read
\* after remove_node: the dict has lost at most the node itself (a self loop).
dependencies_view(R, node) == DOMAIN remove_node_unlinked(R, node).out[node]

\* The for loop over dependencies. The view is walked in ascending node order;
\* the order only decides ties of the next sort, and the key has none.
RECURSIVE append_ready(_, _, _, _)
append_ready(pend, deps, i, R) ==
    IF i > Len(deps) THEN pend
    ELSE LET dependency == deps[i]
             pend1 == IF predecessors(R, dependency) = {} /\ dependency \notin Range(pend)
                      THEN Append(pend, dependency)
                      ELSE pend
         IN  append_ready(pend1, deps, i + 1, R)

\* One iteration of `while pending`.
ts_iteration(st, k) ==
    LET srt  == sorted(st.pending, k)
        node == popped(st.pending, k)
        deps == Ascending(dependencies_view(st.remaining, node))
        R    == remove_node(st.remaining, node)
    IN  [remaining |-> R,
         pending   |-> append_ready(SelectSeq(srt, LAMBDA x : x # node), deps, 1, R),
         result    |-> Append(st.result, node)]

\* [node for node in nodes if node in result]: the two lists swapped.
ts_return_by_nodes(res, ns) == SelectSeq(ns, LAMBDA n : n \in Range(res))

\* return result: the projection forgotten.
ts_return_unfiltered(res, ns) == res

\* return [node for node in result if node in nodes]
ts_return(res, ns) == SelectSeq(res, LAMBDA n : n \in Range(ns))

\* The while loop run to its end.
RECURSIVE ts_loop(_, _)
ts_loop(st, k) == IF st.pending = <<>> THEN st ELSE ts_loop(ts_iteration(st, k), k)

\* topological_sort(G) as a function, for a graph it does not fail on: the
\* key of graph mode has no absent node, so it is unique.
topological_sort_graph(G) ==
    LET ns == graph_nodes(G)
        k  == CHOOSE f \in sort_key_from_iter(ns, NodeSet(G)) : TRUE
        st == ts_loop([remaining |-> copy(G), pending |-> initial_pending(G),
                       result |-> <<>>], k)
    IN  ts_return(Reverse(st.result), ns)

TsCall ==
    /\ ts_pc = "call"
    /\ nodes' = IF mode = "graph" THEN graph_nodes(graph) ELSE target
    /\ remaining' = copy(graph)
    /\ key' \in sort_key_from_iter(nodes', NodeSet(graph))
    /\ pending' = initial_pending(graph)
    /\ result' = <<>>
    /\ ts_pc' = "loop"
    /\ UNCHANGED <<graph, mode, target, ret, rc_vars, api_vars, fc_vars>>

TsIterate ==
    /\ ts_pc = "loop"
    /\ pending # <<>>
    /\ LET st == ts_iteration([remaining |-> remaining, pending |-> pending,
                               result |-> result], key)
       IN  /\ remaining' = st.remaining
           /\ pending' = st.pending
           /\ result' = st.result
    /\ graph' = remove_node_written_through(graph, copy_shared(graph), remaining,
                                            popped(pending, key))
    /\ UNCHANGED <<mode, target, ts_pc, nodes, key, ret, rc_vars, api_vars, fc_vars>>

TsFinish ==
    /\ ts_pc = "loop"
    /\ pending = <<>>
    /\ result' = Reverse(result)
    /\ IF graph_nodes(remaining) # <<>>
       THEN ts_pc' = "assert_remaining" /\ ret' = ret
       ELSE IF ~is_topologically_sorted(result', graph)
            THEN ts_pc' = "assert_sorted" /\ ret' = ret
            ELSE ts_pc' = "returned" /\ ret' = ts_return(result', nodes)
    /\ UNCHANGED <<graph, mode, target, nodes, key, remaining, pending, rc_vars, api_vars, fc_vars>>

\* ------------------------------------------------------------------ inputs
Pairs(n) == (1..n) \X (1..n)

EdgeSets(n) == {E \in SUBSET Pairs(n) : Cardinality(E) <= MaxEdges}

Orders(n) == {s \in [1..n -> 1..n] : Injective(s)}

\* Duplicate-free lists of nodes, graph nodes or not.
Lists == UNION {{s \in [1..k -> Node] : Injective(s)} : k \in 0..MaxNodes}

NoRc == /\ rc_key = EmptyDict /\ rc_pc = "idle" /\ run = 0 /\ cycle = <<>>
        /\ iterations = 0
        /\ found = {} /\ graph0 = EmptyGraph /\ after1 = EmptyGraph

NoCall == [op |-> "none", a |-> 0, b |-> 0, e |-> FALSE, raised |-> FALSE]

NoApi == graph_b = EmptyGraph /\ call = NoCall /\ before = EmptyGraph

NoFc == /\ fc_pc = "idle" /\ fc_root = 0 /\ fc_done = {} /\ fc_stack = <<>>
        /\ fc_ret = <<>> /\ hit = <<>>

\* Graph mode: the graph's nodes in any insertion order. List mode: the
\* reference order is the list's, any duplicate-free list; the graph's own
\* insertion order is then the ascending one.
Init ==
    /\ \E n \in 0..MaxNodes : \E E \in EdgeSets(n) :
          \/ /\ mode = "graph" /\ target = <<>>
             /\ \E order \in Orders(n) : graph = MkGraph(order, E, TRUE)
          \/ /\ mode = "list" /\ target \in Lists
             /\ graph = MkGraph([i \in 1..n |-> i], E, TRUE)
    /\ ts_pc = "call"
    /\ nodes = <<>> /\ key = EmptyDict /\ remaining = EmptyGraph
    /\ pending = <<>> /\ result = <<>> /\ ret = <<>>
    /\ NoRc /\ NoApi /\ NoFc

Next == TsCall \/ TsIterate \/ TsFinish

Spec == Init /\ [][Next]_vars

\* ------------------------------------------------- _remove_self_references
RECURSIVE remove_self_from(_, _)
remove_self_from(G, i) ==
    IF i > Len(graph_nodes(G)) THEN G
    ELSE remove_self_from(remove_edge(G, graph_nodes(G)[i], graph_nodes(G)[i]), i + 1)

_remove_self_references(G) == remove_self_from(G, 1)

\* ------------------------------------------------------------- _find_cycle
\* A stack frame is [node, deps]: the node and its remaining successors.
\* set.pop() draws an arbitrary element, so the search has a set of possible
\* outcomes: every draw order is followed.
in_stack(stack) == {stack[i].node : i \in DOMAIN stack}

\* The loop run until the stack is empty: every frame is taken for a member.
RECURSIVE cycle_from_stack_all(_, _, _)
cycle_from_stack_all(stack, dependency, acc) ==
    IF stack = <<>> THEN acc
    ELSE cycle_from_stack_all(Front(stack), dependency,
                              IF stack[Len(stack)].node = dependency THEN acc
                              ELSE Append(acc, stack[Len(stack)].node))

\* The members read off the stack from the successor's frame upwards, without
\* popping: the frames in the order they were pushed.
cycle_from_stack_pushed(stack, dependency, acc) ==
    LET first == CHOOSE i \in DOMAIN stack : stack[i].node = dependency
    IN  [i \in 1..(Len(stack) - first + 1) |-> stack[first + i - 1].node]

\* cycle = [dependency]; while stack[-1][0] != dependency: append the top, pop.
RECURSIVE cycle_from_stack(_, _, _)
cycle_from_stack(stack, dependency, acc) ==
    IF stack[Len(stack)].node = dependency THEN acc
    ELSE cycle_from_stack(Front(stack), dependency, Append(acc, stack[Len(stack)].node))

\* The while loop over the stack, from one root. An outcome is the cycle
\* returned (<<>> when the stack ran empty) and the processed set.
RECURSIVE search(_, _, _)
search(G, stack, processed) ==
    IF stack = <<>> THEN {[cycle |-> <<>>, processed |-> processed]}
    ELSE LET top == stack[Len(stack)]
         IN  IF top.deps = {}
             THEN search(G, Front(stack), processed \cup {top.node})
             ELSE UNION {
                 LET stack1 == [stack EXCEPT ![Len(stack)].deps = @ \ {dependency}]
                 IN  IF dependency \in in_stack(stack)
                     THEN {[cycle |-> cycle_from_stack(stack1, dependency, <<dependency>>),
                            processed |-> processed]}
                     ELSE IF dependency \notin processed
                          THEN search(G, Append(stack1, [node |-> dependency,
                                                         deps |-> successors(G, dependency)]),
                                      processed)
                          ELSE search(G, stack1, processed)
                 : dependency \in top.deps}

\* `return None` inside the for loop: only the first root is searched.
find_from_first_root(G, i, processed) ==
    IF i > Len(graph_nodes(G)) THEN {<<>>}
    ELSE LET node == graph_nodes(G)[i]
         IN  {o.cycle : o \in search(G, <<[node |-> node, deps |-> successors(G, node)]>>,
                                     processed)}

\* The for loop over graph.nodes.
RECURSIVE find_from_roots(_, _, _)
find_from_roots(G, i, processed) ==
    IF i > Len(graph_nodes(G)) THEN {<<>>}
    ELSE LET node == graph_nodes(G)[i]
         IN  IF node \in processed THEN find_from_roots(G, i + 1, processed)
             ELSE UNION {
                 IF o.cycle # <<>> THEN {o.cycle}
                 ELSE find_from_roots(G, i + 1, o.processed)
                 : o \in search(G, <<[node |-> node, deps |-> successors(G, node)]>>, processed)}

\* The lists _find_cycle(G) can return, <<>> standing for None.
_find_cycle(G) == find_from_roots(G, 1, {})

\* ---------------------------------------------------------- replace_cycles
\* The outer loop stopped after the first node of the cycle.
RECURSIVE remove_internal_first(_, _, _, _)
remove_internal_first(G, c, i, j) ==
    IF i > 1 \/ j > Len(c) THEN G
    ELSE remove_internal_first(remove_edge(G, c[i], c[j]), c, i, j + 1)

\* for dependency in graph.nodes: every edge leaving a member of the cycle is
\* removed, not only those inside it.
RECURSIVE remove_internal_incident(_, _, _, _)
remove_internal_incident(G, c, i, j) ==
    IF i > Len(c) THEN G
    ELSE IF j > Len(graph_nodes(G)) THEN remove_internal_incident(G, c, i + 1, 1)
         ELSE remove_internal_incident(remove_edge(G, c[i], graph_nodes(G)[j]), c, i, j + 1)

\* for node in cycle: for dependency in cycle: graph.remove_edge(node, dependency)
RECURSIVE remove_internal(_, _, _, _)
remove_internal(G, c, i, j) ==
    IF i > Len(c) THEN G
    ELSE IF j > Len(c) THEN remove_internal(G, c, i + 1, 1)
         ELSE remove_internal(remove_edge(G, c[i], c[j]), c, i, j + 1)

\* graph.add_edge(prev, node, True): the chain linked the other way round.
RECURSIVE link_chain_forward(_, _, _)
link_chain_forward(G, s, i) ==
    IF i > Len(s) THEN G
    ELSE link_chain_forward(add_edge(G, s[i - 1], s[i], TRUE), s, i + 1)

\* prev = next(nodes); for node in nodes: graph.add_edge(node, prev, True); prev = node
RECURSIVE link_chain(_, _, _)
link_chain(G, s, i) ==
    IF i > Len(s) THEN G
    ELSE link_chain(add_edge(G, s[i], s[i - 1], TRUE), s, i + 1)

\* The sort forgotten: the chain follows the order of the list _find_cycle
\* returned.
replace_cycle_unsorted(G, c, k) == link_chain(remove_internal(G, c, 1, 1), c, 2)

\* The body of one loop iteration, for the cycle found.
replace_cycle(G, c, k) == link_chain(remove_internal(G, c, 1, 1), sorted(c, k), 2)

\* The loop and the whole call as functions of the draw order: every graph
\* replace_cycles(G, key=k) can leave.
RECURSIVE replace_loop(_, _)
replace_loop(G, k) ==
    UNION {IF c = <<>> THEN {G} ELSE replace_loop(replace_cycle(G, c, k), k)
           : c \in _find_cycle(G)}

replace_cycles(G, k) == replace_loop(_remove_self_references(G), k)

RcCall ==
    /\ rc_pc = "call"
    /\ graph' = _remove_self_references(graph)
    /\ graph0' = IF run = 1 THEN graph ELSE graph0
    /\ rc_pc' = "loop"
    /\ UNCHANGED <<rc_key, run, cycle, iterations, found, after1, ts_vars, api_vars, fc_vars>>

\* One loop iteration that finds a cycle. The guard on `iterations` only keeps
\* the counter finite; C6_Terminates shows it never holds an iteration back.
RcIterate ==
    /\ rc_pc = "loop"
    /\ iterations <= RcMaxEdges
    /\ \E c \in _find_cycle(graph) :
          /\ c # <<>>
          /\ cycle' = c
          /\ graph' = replace_cycle(graph, c, rc_key)
          /\ found' = IF run = 1 THEN found \cup {Range(c)} ELSE found
    /\ iterations' = iterations + 1
    /\ UNCHANGED <<rc_key, rc_pc, run, graph0, after1, ts_vars, api_vars, fc_vars>>

\* `if cycle: break` for `if not cycle: break`: the loop left after its first
\* replacement.
RcReturn_after_first ==
    /\ rc_pc = "loop"
    /\ (<<>> \in _find_cycle(graph) \/ cycle # <<>>)
    /\ rc_pc' = "done"
    /\ after1' = IF run = 1 THEN graph ELSE after1
    /\ UNCHANGED <<graph, rc_key, run, cycle, iterations, found, graph0, ts_vars, api_vars, fc_vars>>

RcReturn ==
    /\ rc_pc = "loop"
    /\ <<>> \in _find_cycle(graph)
    /\ rc_pc' = "done"
    /\ after1' = IF run = 1 THEN graph ELSE after1
    /\ UNCHANGED <<graph, rc_key, run, cycle, iterations, found, graph0, ts_vars, api_vars, fc_vars>>

\* replace_cycles called a second time, with the same key, on the graph the
\* first call left.
RcAgain ==
    /\ rc_pc = "done"
    /\ run = 1
    /\ run' = 2
    /\ rc_pc' = "call"
    /\ cycle' = <<>>
    /\ iterations' = 0
    /\ UNCHANGED <<graph, rc_key, found, graph0, after1, ts_vars, api_vars, fc_vars>>

\* Keys up to order isomorphism: the ranks used are 1..m for some m.
Keys(n) == {k \in [1..n -> 1..n] : \A r \in 1..n : (\E x \in 1..n : k[x] = r + 1) =>
                                                    (\E x \in 1..n : k[x] = r)}

RcEdgeSets(n) == {E \in SUBSET Pairs(n) : Cardinality(E) <= RcMaxEdges}

NoTs == /\ mode = "none" /\ target = <<>> /\ ts_pc = "idle" /\ nodes = <<>>
        /\ key = EmptyDict /\ remaining = EmptyGraph /\ pending = <<>>
        /\ result = <<>> /\ ret = <<>>

InitRC ==
    /\ \E n \in 0..RcMaxNodes : \E E \in RcEdgeSets(n) :
           /\ graph = MkGraph([i \in 1..n |-> i], E, FALSE)
           /\ rc_key \in Keys(n)
    /\ rc_pc = "call" /\ run = 1 /\ cycle = <<>> /\ iterations = 0 /\ found = {}
    /\ graph0 = EmptyGraph /\ after1 = EmptyGraph
    /\ NoTs /\ NoApi /\ NoFc

NextRC == RcCall \/ RcIterate \/ RcReturn \/ RcAgain

SpecRC == InitRC /\ [][NextRC]_vars

\* ------------------------------------------------- _find_cycle, step by step
\* The same search as one loop iteration per step, the stack in the state.
FcMaxNodes == 4
FcMaxEdges == 4

\* The nodes whose frame holds the graph's own successor dict. None:
\* set(graph.successors(node)) is a new set.
frame_shared(G) == {}

\* What top_dependencies.pop() writes into the graph when the frame of `node`
\* holds the graph's own successor dict.
draw_written_through(G, shared, node, dependency) ==
    IF node \in shared THEN [G EXCEPT !.out[node] = Drop(@, dependency)] ELSE G

\* processed = set(); the for loop is entered.
FcCall ==
    /\ fc_pc = "call"
    /\ fc_done' = {}
    /\ fc_root' = 1
    /\ fc_pc' = "roots"
    /\ UNCHANGED <<graph, fc_stack, fc_ret, hit, ts_vars, rc_vars, api_vars>>

\* One turn of `for node in graph.nodes`, up to the entry of the while loop.
FcNextRoot ==
    /\ fc_pc = "roots"
    /\ fc_root <= Len(graph_nodes(graph))
    /\ LET node == graph_nodes(graph)[fc_root]
       IN  IF node \in fc_done
           THEN UNCHANGED <<fc_stack, fc_pc>>
           ELSE /\ fc_stack' = <<[node |-> node, deps |-> successors(graph, node)]>>
                /\ fc_pc' = "search"
    /\ fc_root' = fc_root + 1
    /\ UNCHANGED <<graph, fc_done, fc_ret, hit, ts_vars, rc_vars, api_vars>>

\* One turn of `while stack` with the top frame exhausted.
FcPop ==
    /\ fc_pc = "search"
    /\ fc_stack[Len(fc_stack)].deps = {}
    /\ fc_done' = fc_done \cup {fc_stack[Len(fc_stack)].node}
    /\ fc_stack' = Front(fc_stack)
    /\ fc_pc' = IF fc_stack' = <<>> THEN "roots" ELSE "search"
    /\ UNCHANGED <<graph, fc_root, fc_ret, hit, ts_vars, rc_vars, api_vars>>

\* One turn of `while stack` that draws a successor of the top frame.
FcDraw ==
    /\ fc_pc = "search"
    /\ \E dependency \in fc_stack[Len(fc_stack)].deps :
          LET top    == fc_stack[Len(fc_stack)]
              stack1 == [fc_stack EXCEPT ![Len(fc_stack)].deps = @ \ {dependency}]
          IN  /\ graph' = draw_written_through(graph, frame_shared(graph), top.node,
                                               dependency)
              /\ IF dependency \in in_stack(fc_stack)
                 THEN /\ fc_ret' = cycle_from_stack(stack1, dependency, <<dependency>>)
                      /\ hit' = [stack |-> [i \in DOMAIN fc_stack |-> fc_stack[i].node],
                                 dependency |-> dependency]
                      /\ fc_pc' = "returned"
                      /\ fc_stack' = stack1
                 ELSE /\ fc_stack' = IF dependency \notin fc_done
                                     THEN Append(stack1,
                                                 [node |-> dependency,
                                                  deps |-> successors(graph', dependency)])
                                     ELSE stack1
                      /\ UNCHANGED <<fc_ret, hit, fc_pc>>
    /\ UNCHANGED <<fc_root, fc_done, ts_vars, rc_vars, api_vars>>

\* return None: the for loop has run out.
FcReturnNone ==
    /\ fc_pc = "roots"
    /\ fc_root > Len(graph_nodes(graph))
    /\ fc_ret' = <<>>
    /\ fc_pc' = "returned"
    /\ UNCHANGED <<graph, fc_root, fc_done, fc_stack, hit, ts_vars, rc_vars, api_vars>>

FcEdgeSets(n) == {E \in SUBSET Pairs(n) : Cardinality(E) <= FcMaxEdges}

\* Any graph, self loops included; `before` keeps it as it was at the call.
InitFC ==
    /\ \E n \in 0..FcMaxNodes : \E E \in FcEdgeSets(n) :
           graph = MkGraph([i \in 1..n |-> i], E, FALSE)
    /\ before = graph /\ graph_b = EmptyGraph /\ call = NoCall
    /\ fc_pc = "call" /\ fc_root = 0 /\ fc_done = {} /\ fc_stack = <<>>
    /\ fc_ret = <<>> /\ hit = <<>>
    /\ NoTs /\ NoRc

NextFC == FcCall \/ FcNextRoot \/ FcPop \/ FcDraw \/ FcReturnNone

SpecFC == InitFC /\ [][NextFC]_vars

\* ------------------------------------------------ calls of the Graph methods
\* A program that builds and edits one graph through the methods of Graph, in
\* any order and with any arguments, present nodes or not, now and then taking
\* a copy (graph_b = graph.copy()) and merging the last copy back
\* (graph.update(graph_b)). A call that raises KeyError is caught and the
\* program goes on.
ApiMaxNodes == 2

ApiNode == 1..ApiMaxNodes

Called(op, a, b, e, raised) == [op |-> op, a |-> a, b |-> b, e |-> e, raised |-> raised]

ApiAddNode ==
    \E node \in ApiNode :
        /\ graph' = add_node(graph, node)
        /\ call' = Called("add_node", node, 0, FALSE, FALSE)
        /\ before' = graph
        /\ UNCHANGED <<graph_b, ts_vars, rc_vars, fc_vars>>

ApiAddEdge ==
    \E origin \in ApiNode, destination \in ApiNode, e \in BOOLEAN :
        /\ graph' = add_edge(graph, origin, destination, e)
        /\ call' = Called("add_edge", origin, destination, e,
                          add_edge_raises(graph, origin, destination))
        /\ before' = graph
        /\ UNCHANGED <<graph_b, ts_vars, rc_vars, fc_vars>>

ApiRemoveNode ==
    \E node \in ApiNode :
        /\ graph' = remove_node(graph, node)
        /\ call' = Called("remove_node", node, 0, FALSE, remove_node_raises(graph, node))
        /\ before' = graph
        /\ UNCHANGED <<graph_b, ts_vars, rc_vars, fc_vars>>

ApiRemoveEdge ==
    \E origin \in ApiNode, destination \in ApiNode :
        /\ graph' = remove_edge(graph, origin, destination)
        /\ call' = Called("remove_edge", origin, destination, FALSE,
                          remove_edge_raises(graph, origin, destination))
        /\ before' = graph
        /\ UNCHANGED <<graph_b, ts_vars, rc_vars, fc_vars>>

\* graph.update(graph_b)
ApiUpdate ==
    /\ graph' = update(graph, graph_b)
    /\ call' = Called("update", 0, 0, FALSE, FALSE)
    /\ before' = graph
    /\ UNCHANGED <<graph_b, ts_vars, rc_vars, fc_vars>>

\* graph_b = graph.copy()
ApiCopy ==
    /\ graph_b' = copy(graph)
    /\ call' = Called("copy", 0, 0, FALSE, FALSE)
    /\ before' = graph
    /\ UNCHANGED <<graph, ts_vars, rc_vars, fc_vars>>

InitAPI ==
    /\ graph = EmptyGraph /\ graph_b = EmptyGraph
    /\ call = NoCall /\ before = EmptyGraph
    /\ NoTs /\ NoRc /\ NoFc

NextAPI ==
    \/ ApiAddNode \/ ApiAddEdge \/ ApiRemoveNode \/ ApiRemoveEdge
    \/ ApiUpdate \/ ApiCopy

SpecAPI == InitAPI /\ [][NextAPI]_vars

\* ===================================================== replace_cycles claims
\* The graph the current call of replace_cycles started from.
RcStart == IF run = 1 THEN graph0 ELSE after1

EdgeCount(G) == Cardinality(Edges(G))

\* C5: when replace_cycles returns, the graph has no directed cycle and no
\* self loop, and _find_cycle returns None on it whatever the draw order.
C5_NoCycleLeft ==
    rc_pc = "done" => (Acyclic(graph) /\ _find_cycle(graph) = {<<>>})

\* The call started with a self loop and broke two cycles sharing a node.
C5_Witness ==
    /\ rc_pc = "done" /\ run = 1
    /\ \E n \in NodeSet(graph0) : has_edge(graph0, n, n)
    /\ \E c1, c2 \in found : c1 # c2 /\ c1 \cap c2 # {}

\* C6: replace_cycles terminates for every graph and every key, injective or
\* not. Every loop iteration leaves the graph with at least one edge fewer, so
\* a call makes no more iterations than the graph had edges when it started
\* (termination stated as a bound on the loop, which a finite run refutes).
C6_Terminates ==
    rc_pc \in {"loop", "done"} =>
        iterations + EdgeCount(graph) <= EdgeCount(RcStart)

\* The edges c[i+1] -> c[i] and c[1] -> c[Len(c)] the search walked to find c.
CycleEdges(c) ==
    {<<c[i + 1], c[i]>> : i \in 1..(Len(c) - 1)} \cup {<<c[1], c[Len(c)]>>}

\* A second iteration under a key with ties found a cycle that runs over a
\* chain edge the first iteration created and through a node outside the
\* first cycle.
C6_Witness ==
    /\ rc_pc = "loop" /\ run = 1 /\ iterations = 2
    /\ ~Injective(rc_key)
    /\ \E c1 \in found :
          /\ Range(cycle) \ c1 # {}
          /\ \E e \in CycleEdges(cycle) :
                e[1] \in c1 /\ e[2] \in c1 /\ e \notin Edges(graph0)

\* The members of c next to each other in key order, higher key first.
ChainPairs(c, k) ==
    {<<v, u>> \in c \X c : k[u] < k[v] /\ ~\E w \in c : k[u] < k[w] /\ k[w] < k[v]}

\* C7: with an injective key, when replace_cycles returns, any two members
\* u, v of any cycle found, key(u) < key(v), are still joined by a directed
\* path from v to u, and topological_sort of the final graph places u before v.
C7_FoundCyclesStayOrdered ==
    (rc_pc = "done" /\ Injective(rc_key)) =>
        \A c \in found : \A u, v \in c :
            rc_key[u] < rc_key[v] =>
                /\ HasPath(graph, v, u)
                /\ Before(topological_sort_graph(graph), u, v)

\* A chain edge of a found cycle is gone from the final graph: a later
\* iteration deleted it.
C7_Witness ==
    /\ rc_pc = "done" /\ run = 1 /\ Injective(rc_key)
    /\ \E c \in found : \E e \in ChainPairs(c, rc_key) : ~has_edge(graph, e[1], e[2])

\* C8: a second call of replace_cycles, with the same key, on the graph the
\* first call left changes no node, no edge and no label.
C8_SecondRunChangesNothing ==
    run = 2 => graph = after1

\* The second call has returned, after a first call that removed a self loop
\* and replaced at least two cycles.
C8_Witness ==
    /\ run = 2 /\ rc_pc = "done"
    /\ Cardinality(found) >= 2
    /\ \E n \in NodeSet(graph0) : has_edge(graph0, n, n)

\* C9: for a fixed graph and a fixed injective key, replace_cycles leaves the
\* same graph whatever order _find_cycle draws successors in.
C9_DrawOrderIrrelevant ==
    (rc_pc = "done" /\ run = 1 /\ Injective(rc_key)) =>
        replace_cycles(graph0, rc_key) = {graph}

\* ================================================= topological_sort claims
TsEnded == ts_pc \in {"returned", "assert_remaining", "assert_sorted"}

\* The nodes the caller asked to have sorted.
Requested == IF mode = "graph" THEN NodeSet(graph) ELSE Range(target)

\* C1: for an acyclic graph, every edge origin->destination whose two
\* endpoints are requested has both endpoints in the returned list, the
\* destination before the origin (in graph mode: every edge).
C1_EdgesRespected ==
    (ts_pc = "returned" /\ Acyclic(graph)) =>
        \A e \in Edges(graph) :
            (e[1] \in Requested /\ e[2] \in Requested) =>
                /\ e[1] \in Range(ret) /\ e[2] \in Range(ret)
                /\ Before(ret, e[2], e[1])

\* A list-mode sort that had to move a destination in front of its origin while
\* the graph holds a node outside the list.
C1_Witness ==
    /\ ts_pc = "returned" /\ mode = "list"
    /\ \E e \in Edges(graph) :
           /\ e[1] \in Range(target) /\ e[2] \in Range(target)
           /\ Before(target, e[1], e[2])
    /\ NodeSet(graph) \ Range(target) # {}
    /\ Cardinality(Edges(graph)) >= 2

\* C2 as stated: every returned list is a permutation of exactly the requested
\* nodes.
C2_PermutationOfRequested ==
    ts_pc = "returned" => (NoDuplicates(ret) /\ Range(ret) = Requested)

\* C2 amended: the same, for calls whose requested nodes are all nodes of the
\* graph.
C2_PermutationOfRequestedInGraph ==
    (ts_pc = "returned" /\ Requested \subseteq NodeSet(graph)) =>
        (NoDuplicates(ret) /\ Range(ret) = Requested)

C2_Witness ==
    /\ ts_pc = "returned" /\ mode = "list"
    /\ Range(target) \subseteq NodeSet(graph)
    /\ Range(target) # NodeSet(graph)
    /\ Len(target) >= 2
    /\ ret # target

\* The graph's node iteration order is dependency first.
OrderIsValid(G) ==
    \A e \in Edges(G) : Before(graph_nodes(G), e[2], e[1])

\* C3: when the node iteration order of the graph is already dependency
\* first, topological_sort(graph) returns exactly that order.
C3_ValidOrderKept ==
    (TsEnded /\ mode = "graph" /\ OrderIsValid(graph)) =>
        (ts_pc = "returned" /\ ret = graph_nodes(graph))

C3_Witness ==
    /\ ts_pc = "returned" /\ mode = "graph" /\ OrderIsValid(graph)
    /\ Cardinality(Edges(graph)) >= 2
    /\ Len(graph_nodes(graph)) = MaxNodes
    /\ graph_nodes(graph)[1] > graph_nodes(graph)[2]

Unconstrained(G, u, v) == u # v /\ ~HasPath(G, u, v) /\ ~HasPath(G, v, u)

\* C4 as stated: two nodes with no directed path between them keep the
\* relative order they have in the reference sequence.
C4_UnconstrainedKeepOrder ==
    (ts_pc = "returned" /\ Acyclic(graph)) =>
        \A u, v \in Range(ret) :
            (Unconstrained(graph, u, v) /\ Before(nodes, u, v)) => Before(ret, u, v)

\* C4 amended: two nodes with the same set of predecessors (in particular two
\* nodes without predecessors) keep the relative order they have in the
\* reference sequence.
C4_SamePredecessorsKeepOrder ==
    (ts_pc = "returned" /\ Acyclic(graph)) =>
        \A u, v \in Range(ret) :
            (/\ u # v
             /\ predecessors(graph, u) = predecessors(graph, v)
             /\ Before(nodes, u, v)) => Before(ret, u, v)

\* Two nodes sharing a non-empty predecessor set, and two roots, both kept in
\* reference order around a node that had to move.
C4_Witness ==
    /\ ts_pc = "returned" /\ ret # nodes
    /\ \E u, v \in Range(ret) :
           /\ u # v /\ predecessors(graph, u) = predecessors(graph, v)
           /\ predecessors(graph, u) # {}
           /\ Before(nodes, u, v)

C10_ReturnsIffAcyclic ==
    TsEnded =>
        /\ (ts_pc = "returned") <=> Acyclic(graph)
        /\ HasCycle(graph) =>
               (ts_pc = "assert_remaining" /\ pending = <<>> /\ NodeSet(remaining) # {})
        /\ ts_pc # "assert_sorted"

\* The assertion fails on a cycle of two or more nodes after part of the graph
\* was already sorted.
C10_Witness ==
    /\ ts_pc = "assert_remaining"
    /\ result # <<>>
    /\ \E a, b \in NodeSet(graph) : a # b /\ HasPath(graph, a, b) /\ HasPath(graph, b, a)

\* ========================================================= Graph claims
\* The two indices of G hold the same nodes and the same labelled edges.
Mirror(G) ==
    /\ DOMAIN G.out = DOMAIN G.inn
    /\ \A a \in DOMAIN G.out, b \in DOMAIN G.out, L \in BOOLEAN :
           (b \in DOMAIN G.out[a] /\ G.out[a][b] = L)
               <=> (a \in DOMAIN G.inn[b] /\ G.inn[b][a] = L)

\* C12: after any sequence of add_node, add_edge, remove_node, remove_edge,
\* update and copy calls, failing calls included, the outgoing and the incoming
\* index of a graph (the edited one and the copy) have the same node set, and
\* an edge a->b is in the outgoing index of a with label L exactly when it is
\* in the incoming index of b with label L.
C12_MirrorInvariant == Mirror(graph) /\ Mirror(graph_b)

\* A failed add_edge on a graph that keeps a self loop, while the copy holds a
\* node the graph has lost and two edges with different labels.
C12_Witness ==
    /\ call.op = "add_edge" /\ call.raised
    /\ \E a \in NodeSet(graph) : has_edge(graph, a, a)
    /\ NodeSet(graph_b) \ NodeSet(graph) # {}
    /\ \E a, b \in NodeSet(graph_b) : /\ a # b /\ has_edge(graph_b, a, b) /\ has_edge(graph_b, b, a)
                                       /\ edge(graph_b, a, b) # edge(graph_b, b, a)

\* The label of a->b in the outgoing index of G as a set, empty when the index
\* has no such edge, and the same for the incoming index.
OutLabel(G, a, b) ==
    IF a \in DOMAIN G.out /\ b \in DOMAIN G.out[a] THEN {G.out[a][b]} ELSE {}

InLabel(G, a, b) ==
    IF b \in DOMAIN G.inn /\ a \in DOMAIN G.inn[b] THEN {G.inn[b][a]} ELSE {}

\* C13: add_edge, remove_edge and remove_node addressed to a node absent from
\* the graph raise, and raise only then; a call that raised left the nodes,
\* edges and labels of the graph as they were, in both indices.
C13_AbsentNodeRaisesAndWritesNothing ==
    /\ call.op \in {"add_edge", "remove_edge"} =>
           (call.raised <=> (call.a \notin NodeSet(before) \/ call.b \notin NodeSet(before)))
    /\ call.op = "remove_node" => (call.raised <=> call.a \notin NodeSet(before))
    /\ call.raised => graph = before

\* add_edge(o, d, l) has raised with o present, holding an edge, and d absent.
C13_Witness ==
    /\ call.op = "add_edge" /\ call.raised
    /\ call.a \in NodeSet(before) /\ call.b \notin NodeSet(before)
    /\ has_edge(before, call.a, call.a)

\* C14: remove_node(n) on a present node n, with or without an edge to itself,
\* does not raise and leaves a graph where n is no node of either index and in
\* no successor or predecessor set, while the other nodes stay and every edge
\* not touching n keeps its presence and its label.
C14_RemoveNodeLeavesNoTrace ==
    (call.op = "remove_node" /\ call.a \in NodeSet(before)) =>
        LET n == call.a
        IN  /\ ~call.raised
            /\ DOMAIN graph.out = NodeSet(before) \ {n}
            /\ DOMAIN graph.inn = NodeSet(before) \ {n}
            /\ Range(graph_nodes(graph)) = NodeSet(before) \ {n}
            /\ \A m \in NodeSet(graph) :
                   n \notin successors(graph, m) /\ n \notin predecessors(graph, m)
            /\ \A a \in ApiNode \ {n}, b \in ApiNode \ {n} :
                   /\ OutLabel(graph, a, b) = OutLabel(before, a, b)
                   /\ InLabel(graph, a, b) = InLabel(before, a, b)

\* The node removed had an edge to itself and edges to and from a node that has
\* an edge to itself.
C14_Witness ==
    /\ call.op = "remove_node" /\ ~call.raised
    /\ has_edge(before, call.a, call.a)
    /\ \E m \in NodeSet(before) \ {call.a} :
           /\ has_edge(before, call.a, m) /\ has_edge(before, m, call.a)
           /\ has_edge(before, m, m)

\* C15: graph.update(graph_b) is a right-biased union: the node set becomes
\* the union of both node sets, the edge set the union of both edge sets, an
\* edge of graph_b carries graph_b's label, an edge of graph alone keeps its
\* label, and graph_b is unchanged.
C15_UpdateIsRightBiasedUnion ==
    [][call'.op = "update" =>
         /\ NodeSet(graph') = NodeSet(graph) \cup NodeSet(graph_b)
         /\ DOMAIN graph'.inn = NodeSet(graph')
         /\ Edges(graph') = Edges(graph) \cup Edges(graph_b)
         /\ \A a \in ApiNode, b \in ApiNode :
                /\ OutLabel(graph', a, b) =
                       IF has_edge(graph_b, a, b) THEN {edge(graph_b, a, b)}
                                                  ELSE OutLabel(graph, a, b)
                /\ InLabel(graph', a, b) = OutLabel(graph', a, b)
         /\ graph_b' = graph_b]_vars

\* The update met an edge with another label in graph_b, an edge of the graph
\* alone and an edge of graph_b alone.
C15_Witness ==
    /\ call.op = "update"
    /\ \E e \in Edges(before) \cap Edges(graph_b) :
           edge(before, e[1], e[2]) # edge(graph_b, e[1], e[2])
    /\ Edges(before) \ Edges(graph_b) # {}
    /\ Edges(graph_b) \ Edges(before) # {}

\* C16: remove_edge(origin, destination) raises only when origin or
\* destination is no node of the graph; with both present it leaves the edge
\* absent from both indices, whether it was there or not, changes no node and
\* no other edge, and a second call changes nothing more.
C16_RemoveEdgeIdempotent ==
    call.op = "remove_edge" =>
        /\ call.raised => (call.a \notin NodeSet(before) \/ call.b \notin NodeSet(before))
        /\ ~call.raised =>
              /\ graph_nodes(graph) = graph_nodes(before)
              /\ DOMAIN graph.out = DOMAIN before.out /\ DOMAIN graph.inn = DOMAIN before.inn
              /\ \A a \in ApiNode, b \in ApiNode :
                     IF <<a, b>> = <<call.a, call.b>>
                     THEN OutLabel(graph, a, b) = {} /\ InLabel(graph, a, b) = {}
                     ELSE /\ OutLabel(graph, a, b) = OutLabel(before, a, b)
                          /\ InLabel(graph, a, b) = InLabel(before, a, b)
              /\ ~remove_edge_raises(graph, call.a, call.b)
              /\ remove_edge(graph, call.a, call.b) = graph

\* remove_edge on an edge that was not there, between two present nodes joined
\* the other way round.
C16_Witness ==
    /\ call.op = "remove_edge" /\ ~call.raised
    /\ call.a # call.b
    /\ ~has_edge(before, call.a, call.b)
    /\ has_edge(before, call.b, call.a)

\* ========================================== replace_cycles claims, continued
\* The edges of G with both endpoints in C.
Internal(G, C) == {e \in Edges(G) : e[1] \in C /\ e[2] \in C}

\* The arrangements of the set C in ascending key order (several when keys tie).
AscendingByKey(C, k) ==
    {s \in [1..Cardinality(C) -> C] :
        /\ Injective(s)
        /\ \A i \in 1..(Cardinality(C) - 1) : k[s[i]] <= k[s[i + 1]]}

\* C17: at the end of a loop iteration of replace_cycles that found the cycle
\* C of k nodes, the edges with both endpoints in C are exactly the k-1 edges
\* s[i+1] -> s[i], labelled True, for s the members of C in ascending key
\* order; no other edge joins two members of C.
C17_CycleBecomesChain ==
    cycle # <<>> =>
        \E s \in AscendingByKey(Range(cycle), rc_key) :
            /\ Internal(graph, Range(cycle)) = {<<s[i + 1], s[i]>> : i \in 1..(Len(s) - 1)}
            /\ Cardinality(Internal(graph, Range(cycle))) = Len(cycle) - 1
            /\ \A e \in Internal(graph, Range(cycle)) :
                   OutLabel(graph, e[1], e[2]) = {TRUE} /\ InLabel(graph, e[1], e[2]) = {TRUE}

\* An iteration has replaced a cycle of three nodes, found in an order that is
\* not the key order, that had more than three edges inside it.
C17_Witness ==
    /\ rc_pc = "loop" /\ run = 1 /\ iterations = 1
    /\ Len(cycle) = 3 /\ Injective(rc_key)
    /\ sorted(cycle, rc_key) # cycle
    /\ Cardinality(Internal(graph0, Range(cycle))) > 3

\* C18: replace_cycles never adds or removes a node; its first step removes
\* only edges from a node to itself; a loop iteration changes only edges with
\* both endpoints in the cycle it found, every other edge keeping its presence
\* and its label in both indices; no other step changes the graph.
C18_OnlyCycleEdgesChange ==
    [][/\ graph_nodes(graph') = graph_nodes(graph)
       /\ DOMAIN graph'.out = DOMAIN graph.out /\ DOMAIN graph'.inn = DOMAIN graph.inn
       /\ \A a \in NodeSet(graph), b \in NodeSet(graph) :
              LET same == /\ OutLabel(graph', a, b) = OutLabel(graph, a, b)
                          /\ InLabel(graph', a, b) = InLabel(graph, a, b)
              IN  IF rc_pc = "call" THEN a # b => same
                  ELSE IF rc_pc = "loop" /\ rc_pc' = "loop"
                       THEN (a \notin Range(cycle') \/ b \notin Range(cycle')) => same
                       ELSE same]_vars

\* The call began by removing a self loop, and an iteration has replaced a
\* cycle that has an edge to a node outside it and an edge from one.
C18_Witness ==
    /\ rc_pc = "loop" /\ run = 1 /\ cycle # <<>>
    /\ \E n \in NodeSet(graph0) : has_edge(graph0, n, n)
    /\ \E e \in Edges(graph) : e[1] \in Range(cycle) /\ e[2] \notin Range(cycle)
    /\ \E e \in Edges(graph) : e[1] \notin Range(cycle) /\ e[2] \in Range(cycle)

\* ====================================================== _find_cycle claims
\* The list c, read cyclically, follows edges of G from each node to the next.
ClosedWalk(G, c) ==
    \A i \in DOMAIN c : has_edge(G, c[i], c[IF i = Len(c) THEN 1 ELSE i + 1])

\* The step-by-step search returns only lists the operator _find_cycle has
\* among its outcomes: the two models of the function agree.
FcAgreesWithOperator == fc_pc = "returned" => fc_ret \in _find_cycle(before)

\* C19: _find_cycle returns None exactly when the graph has no directed cycle,
\* a self loop being one; otherwise, whatever the order successors are drawn
\* in, it returns a non-empty list of pairwise distinct nodes of the graph
\* that is a closed walk read in one of the two directions. The graph is as
\* it was at the call.
C19_FindsCycleIffOneExists ==
    fc_pc = "returned" =>
        /\ (fc_ret = <<>>) <=> Acyclic(before)
        /\ fc_ret # <<>> =>
              /\ NoDuplicates(fc_ret)
              /\ Range(fc_ret) \subseteq NodeSet(before)
              /\ ClosedWalk(before, fc_ret) \/ ClosedWalk(before, Reverse(fc_ret))
        /\ graph = before

\* A cycle of three nodes was returned from a search that held a node below
\* the cycle on its stack.
C19_Witness ==
    /\ fc_pc = "returned" /\ Len(fc_ret) = 3
    /\ Len(hit.stack) > 3

\* C20 as stated: when the successor drawn is on the stack, the list returned
\* is the suffix of the stack from the successor's frame to the top, in stack
\* order: the successor first, then the nodes pushed after it in the order
\* they were pushed, the top node last.
C20_SuffixInStackOrder ==
    (fc_pc = "returned" /\ hit # <<>>) =>
        LET first == IndexOf(hit.stack, hit.dependency)
        IN  fc_ret = SubSeq(hit.stack, first, Len(hit.stack))

\* C20 amended: the list returned holds exactly the nodes of that suffix, the
\* successor first, then the nodes pushed after it from the top of the stack
\* downwards: the top node second, the node pushed right after the successor
\* last.
C20_SuffixFromTopDown ==
    (fc_pc = "returned" /\ hit # <<>>) =>
        LET first == IndexOf(hit.stack, hit.dependency)
            above == SubSeq(hit.stack, first + 1, Len(hit.stack))
        IN  fc_ret = <<hit.dependency>> \o Reverse(above)

\* The successor drawn had two frames above it and one below.
C20_Witness ==
    /\ fc_pc = "returned" /\ hit # <<>>
    /\ IndexOf(hit.stack, hit.dependency) = 2
    /\ Len(hit.stack) = 4

====
